---- MODULE Spec2Model ----
(***************************************************************************)
(* The document structuring engine of Notes-Summarizer:                    *)
(*   pdf_extraction.extract_topics_from_pdf  (font statistics, heading     *)
(*   threshold, block segmenter, noise filter, paragraph reconstructor,    *)
(*   marker formatter) and text_processing.split_into_topics (topic        *)
(*   demultiplexer).                                                       *)
(*                                                                         *)
(* Text is a sequence of characters, each character a TLA+ string.  The    *)
(* characters outside ASCII carry the name of their code point.  Floating  *)
(* point numbers are exact rationals <<numerator, denominator>>; the       *)
(* square root of pstdev() is never taken: a comparison with               *)
(* mean + 0.8 * sqrt(v) is decided on the squares.                         *)
(***************************************************************************)
EXTENDS Integers, Sequences, FiniteSets, TLC

VARIABLES
    pc,                 \* position in the function being run
    fast,               \* extract_topics_from_pdf(fast=...)
    sample_pages,       \* extract_topics_from_pdf(sample_pages=...)
    total_pages,        \* len(doc)
    font_acc,           \* the Welford accumulator: [n, mean, m2]
    page_lines,         \* list of [page, text, size, x]
    threshold,          \* HEADING_FONT_THRESHOLD as [mean, var]
    structured_content, \* list of headings and content blocks
    filtered_content,   \* the noise filter's result
    fi,                 \* the noise filter's index i (1-based)
    output,             \* the formatted text returned
    lines_with_indent,  \* join_paragraph_lines: its argument
    median_indent,      \* join_paragraph_lines: twice median_indent
    jk,                 \* join_paragraph_lines: the index of the next line
    out,                \* join_paragraph_lines: out
    buf,                \* join_paragraph_lines: buf
    text_lines,         \* split_into_topics: lines = text.split("\n")
    tk,                 \* split_into_topics: the index of the next line
    topics,             \* split_into_topics: the dict, in insertion order
    current_topic,      \* split_into_topics: [none, name]
    buffer,             \* split_into_topics: buffer
    MODEL,              \* config._MODEL: [none, id, on_device, eval_mode]
    TOKENIZER,          \* config._TOKENIZER: [none, id]
    LOCK,               \* config._LOCK: the thread that holds it, or 0
    tpc,                \* per thread: position in get_model_tokenizer_device
    calls,              \* per thread: the calls it has made
    ret,                \* per thread: what its calls returned, in order
    loads               \* from_pretrained calls so far: [tokenizer, model]

scanVars == <<fast, sample_pages, total_pages, font_acc, page_lines, threshold>>
filterVars == <<structured_content, filtered_content, fi>>
joinVars == <<lines_with_indent, median_indent, jk, out, buf>>
splitVars == <<text_lines, tk, topics, current_topic, buffer>>

configVars == <<MODEL, TOKENIZER, LOCK, tpc, calls, ret, loads>>
vars == <<pc, scanVars, filterVars, output, joinVars, splitVars, configVars>>

----------------------------------------------------------------------------
(* Characters and the str methods the code uses.                           *)

LowerLetters == <<"a","b","c","d","e","f","g","h","i","j","k","l","m",
                  "n","o","p","q","r","s","t","u","v","w","x","y","z">>
UpperLetters == <<"A","B","C","D","E","F","G","H","I","J","K","L","M",
                  "N","O","P","Q","R","S","T","U","V","W","X","Y","Z">>
Digits == {"0","1","2","3","4","5","6","7","8","9"}

Range(s) == {s[k] : k \in DOMAIN s}

NL == "\n"
BULLET == "u2022"       \* U+2022, the bullet glyph
WHITEBULLET == "u25E6"  \* U+25E6
TRIBULLET == "u2023"    \* U+2023
ONEDOT == "u2024"       \* U+2024
ENDASH == "u2013"       \* U+2013
EMDASH == "u2014"       \* U+2014

Whitespace == {" ", "\t", NL}

IsLower(c) == c \in Range(LowerLetters)
IsUpper(c) == c \in Range(UpperLetters)
IsAlnum(c) == IsLower(c) \/ IsUpper(c) \/ c \in Digits

\* str.upper() on one character
UpperChar(c) ==
    IF IsLower(c)
    THEN UpperLetters[CHOOSE k \in DOMAIN LowerLetters : LowerLetters[k] = c]
    ELSE c

Upper(s) == [k \in DOMAIN s |-> UpperChar(s[k])]

\* the number of leading / trailing characters of s that lie in set
LeadIn(s, set) ==
    IF \A k \in DOMAIN s : s[k] \in set THEN Len(s)
    ELSE (CHOOSE k \in DOMAIN s : s[k] \notin set /\ \A j \in 1..(k-1) : s[j] \in set) - 1

TrailIn(s, set) ==
    IF \A k \in DOMAIN s : s[k] \in set THEN Len(s)
    ELSE Len(s) - (CHOOSE k \in DOMAIN s : s[k] \notin set /\ \A j \in (k+1)..Len(s) : s[j] \in set)

\* str.strip(chars), str.rstrip(chars)
StripChars(s, set) ==
    IF LeadIn(s, set) = Len(s) THEN <<>>
    ELSE SubSeq(s, LeadIn(s, set) + 1, Len(s) - TrailIn(s, set))

RStripChars(s, set) == SubSeq(s, 1, Len(s) - TrailIn(s, set))

Strip(s) == StripChars(s, Whitespace)
RStrip(s) == RStripChars(s, Whitespace)

EndsWith(s, c) == Len(s) > 0 /\ s[Len(s)] = c
StartsWith(s, p) == Len(s) >= Len(p) /\ SubSeq(s, 1, Len(p)) = p

\* sep.join(parts)
RECURSIVE Join(_, _)
Join(sep, parts) ==
    IF parts = <<>> THEN <<>>
    ELSE IF Len(parts) = 1 THEN parts[1]
    ELSE parts[1] \o sep \o Join(sep, Tail(parts))

\* the concatenation of a list of texts: ''.join(parts)
Concat(parts) == Join(<<>>, parts)

\* n copies of the character c
Rep(c, n) == [k \in 1..n |-> c]

----------------------------------------------------------------------------
(* Exact rational arithmetic standing for the floats of the code.          *)

RECURSIVE Gcd(_, _)
Gcd(a, b) == IF b = 0 THEN a ELSE Gcd(b, a % b)

Abs(a) == IF a < 0 THEN -a ELSE a

\* num/den in lowest terms, den > 0
Rat(num, den) ==
    LET g == Gcd(Abs(num), Abs(den))
        sgn == IF den < 0 THEN -1 ELSE 1
    IN  <<sgn * (num \div g), sgn * (den \div g)>>

RInt(a) == <<a, 1>>
RAdd(p, q) == Rat(p[1] * q[2] + q[1] * p[2], p[2] * q[2])
RSub(p, q) == Rat(p[1] * q[2] - q[1] * p[2], p[2] * q[2])
RMul(p, q) == Rat(p[1] * q[1], p[2] * q[2])
RDivInt(p, n) == Rat(p[1], p[2] * n)
RLe(p, q) == p[1] * q[2] <= q[1] * p[2]
RLt(p, q) == p[1] * q[2] < q[1] * p[2]

----------------------------------------------------------------------------
(* class Welford: the online accumulator of the font sizes.                *)

WelfordInit == [n |-> 0, mean |-> RInt(0), m2 |-> RInt(0)]

\* WelfordAdd with m2 += delta * delta, the deviation from the old mean only
WelfordAddDeltaSquared(acc, x) ==
    LET n1 == acc.n + 1
        delta == RSub(RInt(x), acc.mean)
        mean1 == RAdd(acc.mean, RDivInt(delta, n1))
    IN  [n |-> n1, mean |-> mean1, m2 |-> RAdd(acc.m2, RMul(delta, delta))]

\* font_acc.add(x)
WelfordAdd(acc, x) ==
    LET n1 == acc.n + 1
        delta == RSub(RInt(x), acc.mean)
        mean1 == RAdd(acc.mean, RDivInt(delta, n1))
        delta2 == RSub(RInt(x), mean1)
    IN  [n |-> n1, mean |-> mean1, m2 |-> RAdd(acc.m2, RMul(delta, delta2))]

WelfordVariance(acc) == IF acc.n > 0 THEN RDivInt(acc.m2, acc.n) ELSE RInt(0)

\* pstdev() squared: sqrt(variance()) is kept as its square
WelfordPstdevSq(acc) == WelfordVariance(acc)

----------------------------------------------------------------------------
(* extract_topics_from_pdf: sampling, threshold, segmenter, noise filter.  *)

Max(a, b) == IF a >= b THEN a ELSE b

\* sample_set: the pages whose lines feed the accumulator when fast=True
SampleSet(isFast, total, samplePages) ==
    IF isFast /\ total > 0
    THEN LET step == Max(1, total \div samplePages)
         IN  {p \in 0..(total - 1) : p % step = 0}
    ELSE {}

\* (not fast) or (page_num in sample_set)
FeedsStats(isFast, total, samplePages, page) ==
    (~isFast) \/ page \in SampleSet(isFast, total, samplePages)

\* HEADING_FONT_THRESHOLD = mean + 0.8 * stdev, kept as the pair (mean, stdev^2)
HeadingThreshold(acc) ==
    [mean |-> acc.mean,
     var  |-> IF acc.n > 1 THEN WelfordPstdevSq(acc) ELSE RInt(0)]

\* GeThreshold with the factor 0.8 left out: size >= mean + sqrt(var)
GeThresholdOneStdev(size, thr) ==
    LET d == RSub(RInt(size), thr.mean)
    IN  /\ RLe(RInt(0), d)
        /\ RLe(thr.var, RMul(d, d))

\* GeThreshold with > in place of >=: size > mean + 0.8 * sqrt(var)
GeThresholdStrict(size, thr) ==
    LET d == RSub(RInt(size), thr.mean)
    IN  /\ RLt(RInt(0), d)
        /\ RLt(RMul(Rat(16, 25), thr.var), RMul(d, d))

\* size >= mean + 0.8 * sqrt(var), decided on the squares:
\* size - mean >= 0 and 25 * (size - mean)^2 >= 16 * var
GeThreshold(size, thr) ==
    LET d == RSub(RInt(size), thr.mean)
    IN  /\ RLe(RInt(0), d)
        /\ RLe(RMul(Rat(16, 25), thr.var), RMul(d, d))

\* max_font_size >= HEADING_FONT_THRESHOLD and len(line_text) > 2
IsHeadingLine(line, thr) == GeThreshold(line.size, thr) /\ Len(line.text) > 2

TOPIC_TAG == <<"<", "T", "O", "P", "I", "C", ">">>

\* the two shapes of an element of structured_content: the str
\* "<TOPIC>" + line_text, or a list of (text, indent)
TopicItem(text) == [isstr |-> TRUE, s |-> TOPIC_TAG \o text, lines |-> <<>>]
ContentItem(lines) == [isstr |-> FALSE, s |-> <<>>, lines |-> lines]

\* isinstance(item, str) and item.startswith("<TOPIC>")
IsTopic(item) == item.isstr /\ StartsWith(item.s, TOPIC_TAG)

\* SegmentLine with the pending content left in the accumulator at a heading
SegmentLineNoFlush(st, line, thr) ==
    IF IsHeadingLine(line, thr)
    THEN [sc  |-> Append(st.sc, TopicItem(line.text)), cur |-> st.cur]
    ELSE [sc  |-> st.sc,
          cur |-> Append(st.cur, [text |-> line.text, x |-> line.x])]

\* one iteration of the segmenter loop on state [sc, cur]
SegmentLine(st, line, thr) ==
    IF IsHeadingLine(line, thr)
    THEN [sc  |-> (IF st.cur # <<>> THEN Append(st.sc, ContentItem(st.cur)) ELSE st.sc)
                  \o <<TopicItem(line.text)>>,
          cur |-> <<>>]
    ELSE [sc  |-> st.sc,
          cur |-> Append(st.cur, [text |-> line.text, x |-> line.x])]

RECURSIVE SegmentFrom(_, _, _, _)
SegmentFrom(lines, k, st, thr) ==
    IF k > Len(lines) THEN st
    ELSE SegmentFrom(lines, k + 1, SegmentLine(st, lines[k], thr), thr)

\* the segmenter loop and the flush of the remaining content after it
SegmentAll(lines, thr) ==
    LET st == SegmentFrom(lines, 1, [sc |-> <<>>, cur |-> <<>>], thr)
    IN  IF st.cur # <<>> THEN Append(st.sc, ContentItem(st.cur)) ELSE st.sc

MinBlockChars == 80
MinBlockLines == 2
MinManyLines == 6

\* content_lines = [ln for ln, _ in content_list if ln.strip()]
ContentLines(lines) ==
    LET texts == [k \in DOMAIN lines |-> lines[k].text]
    IN  SelectSeq(texts, LAMBDA t : Strip(t) # <<>>)

\* the two branches under which a heading and its block are retained
BlockRetained(lines) ==
    LET cl == ContentLines(lines)
    IN  \/ Len(Join(<<" ">>, cl)) >= MinBlockChars /\ Len(cl) >= MinBlockLines
        \/ Len(cl) >= MinManyLines

\* one iteration of the filter loop at (1-based) index i: [i, fc]
FilterStep(sc, i, fc) ==
    IF IsTopic(sc[i])
    THEN [i  |-> i + 2,
          fc |-> IF i + 1 <= Len(sc) /\ ~IsTopic(sc[i + 1])
                    /\ BlockRetained(sc[i + 1].lines)
                 THEN fc \o <<sc[i], sc[i + 1]>>
                 ELSE fc]
    ELSE [i |-> i + 1, fc |-> Append(fc, sc[i])]

RECURSIVE FilterFrom(_, _, _)
FilterFrom(sc, i, fc) ==
    IF i > Len(sc) THEN fc
    ELSE LET r == FilterStep(sc, i, fc) IN FilterFrom(sc, r.i, r.fc)

FilterAll(sc) == FilterFrom(sc, 1, <<>>)

----------------------------------------------------------------------------
(* clean_line and join_paragraph_lines: the paragraph reconstructor.       *)

\* the class [•◦•‣◦\*․] of bullet_re and clean_line
BulletGlyphs == {BULLET, WHITEBULLET, TRIBULLET, "*", ONEDOT}

\* the class of the module's _BULLET_DETECT_RE, which adds \-
BulletDetectGlyphs == BulletGlyphs \cup {"-"}

\* re.match(r'^\s*([glyphs]|\d+[\.)])\s+', s)
BulletMatch(s, glyphs) ==
    LET r == SubSeq(s, LeadIn(s, Whitespace) + 1, Len(s))
        d == LeadIn(r, Digits)
    IN  \/ Len(r) >= 2 /\ r[1] \in glyphs /\ r[2] \in Whitespace
        \/ d >= 1 /\ Len(r) >= d + 2 /\ r[d + 1] \in {".", ")"}
           /\ r[d + 2] \in Whitespace

\* bullet_re of join_paragraph_lines
BulletRe(s) == BulletMatch(s, BulletGlyphs)

\* re.sub(r"\s+", ' ', s): of a run of whitespace only the first character
\* stays, as one space
CollapseWhitespace(s) ==
    LET marked == [k \in DOMAIN s |->
                      [c    |-> IF s[k] \in Whitespace THEN " " ELSE s[k],
                       keep |-> s[k] \notin Whitespace \/ k = 1
                                \/ s[k - 1] \notin Whitespace]]
        kept == SelectSeq(marked, LAMBDA m : m.keep)
    IN  [k \in DOMAIN kept |-> kept[k].c]

CleanLine(ln) ==
    LET noGlyph == SelectSeq(ln, LAMBDA c : c \notin BulletGlyphs)
        dashed == [k \in DOMAIN noGlyph |->
                     IF noGlyph[k] \in {ENDASH, EMDASH} THEN "-" ELSE noGlyph[k]]
    IN  Strip(CollapseWhitespace(dashed))

\* the k-th smallest (1-based) of a non-empty list of numbers
KthSmallest(nums, k) ==
    CHOOSE v \in Range(nums) :
        /\ Cardinality({j \in DOMAIN nums : nums[j] < v}) < k
        /\ Cardinality({j \in DOMAIN nums : nums[j] <= v}) >= k

\* twice statistics.median(nums), 0 for the empty list
Median2(nums) ==
    IF nums = <<>> THEN 0
    ELSE IF Len(nums) % 2 = 1 THEN 2 * KthSmallest(nums, (Len(nums) + 1) \div 2)
    ELSE KthSmallest(nums, Len(nums) \div 2) + KthSmallest(nums, Len(nums) \div 2 + 1)

MedianIndent2(lines) == Median2([k \in DOMAIN lines |-> lines[k].x])

IndentMargin == 10

\* indent - median_indent > 10
IndentedPast(x, median2) == 2 * x - median2 > 2 * IndentMargin

\* is_bullet of one line of join_paragraph_lines
IsBulletLine(line, median2) ==
    BulletRe(RStrip(line.text)) \/ IndentedPast(line.x, median2)

Unit(text, isBullet) == [text |-> text, is_bullet |-> isBullet]

TerminalPunct == {".", "!", "?"}

EndsInTerminal(s) == Len(s) > 0 /\ s[Len(s)] \in TerminalPunct

\* MergeLine with the hyphen left in place when a line is joined to it
MergeLineKeepHyphen(st, ln) ==
    IF st.buf # <<>>
    THEN IF EndsWith(st.buf, "-")
         THEN [out |-> st.out, buf |-> st.buf \o ln]
         ELSE IF ln # <<>> /\ IsLower(ln[1])
              THEN [out |-> st.out, buf |-> st.buf \o <<" ">> \o ln]
              ELSE [out |-> Append(st.out, Unit(st.buf, FALSE)), buf |-> ln]
    ELSE [out |-> st.out, buf |-> ln]

\* MergeLine with every line joined to the buffer, whatever its first character
MergeLineAnyCase(st, ln) ==
    IF st.buf # <<>>
    THEN IF EndsWith(st.buf, "-")
         THEN [out |-> st.out, buf |-> SubSeq(st.buf, 1, Len(st.buf) - 1) \o ln]
         ELSE [out |-> st.out, buf |-> st.buf \o <<" ">> \o ln]
    ELSE [out |-> st.out, buf |-> ln]

\* buf and ln of a non-bullet line, before the flush on punctuation: [out, buf]
MergeLine(st, ln) ==
    IF st.buf # <<>>
    THEN IF EndsWith(st.buf, "-")
         THEN [out |-> st.out, buf |-> SubSeq(st.buf, 1, Len(st.buf) - 1) \o ln]
         ELSE IF ln # <<>> /\ IsLower(ln[1])
              THEN [out |-> st.out, buf |-> st.buf \o <<" ">> \o ln]
              ELSE [out |-> Append(st.out, Unit(st.buf, FALSE)), buf |-> ln]
    ELSE [out |-> st.out, buf |-> ln]

\* flush when the buffer ends with punctuation that ends a paragraph
FlushOnPunct(st) ==
    IF EndsInTerminal(st.buf)
    THEN [out |-> Append(st.out, Unit(st.buf, FALSE)), buf |-> <<>>]
    ELSE st

\* JoinLine with the buffer left pending across a list item
JoinLineKeepBuffer(st, line, median2) ==
    LET stripped == RStrip(line.text)
        ln == CleanLine(stripped)
    IN  IF ln = <<>> THEN st
        ELSE IF IsBulletLine(line, median2)
        THEN [out |-> Append(st.out, Unit(ln, TRUE)), buf |-> st.buf]
        ELSE FlushOnPunct(MergeLine(st, ln))

\* one iteration of the loop of join_paragraph_lines on state [out, buf]
JoinLine(st, line, median2) ==
    LET stripped == RStrip(line.text)
        ln == CleanLine(stripped)
    IN  IF ln = <<>> THEN st
        ELSE IF IsBulletLine(line, median2)
        THEN [out |-> (IF st.buf # <<>> THEN Append(st.out, Unit(st.buf, FALSE))
                       ELSE st.out) \o <<Unit(ln, TRUE)>>,
              buf |-> <<>>]
        ELSE FlushOnPunct(MergeLine(st, ln))

\* the flush of the remaining buffer after the loop
JoinFinish(st) ==
    IF st.buf # <<>> THEN Append(st.out, Unit(st.buf, FALSE)) ELSE st.out

RECURSIVE JoinFrom(_, _, _, _)
JoinFrom(lines, k, st, median2) ==
    IF k > Len(lines) THEN st
    ELSE JoinFrom(lines, k + 1, JoinLine(st, lines[k], median2), median2)

JoinParagraphLines(lines) ==
    JoinFinish(JoinFrom(lines, 1, [out |-> <<>>, buf |-> <<>>], MedianIndent2(lines)))

----------------------------------------------------------------------------
(* The marker formatter: the last loop of extract_topics_from_pdf.         *)

MinParagraphChars == 30

\* str.replace(pat, ""): every occurrence of pat removed, left to right
RECURSIVE RemoveAll(_, _)
RemoveAll(s, pat) ==
    IF s = <<>> THEN <<>>
    ELSE IF StartsWith(s, pat) THEN RemoveAll(SubSeq(s, Len(pat) + 1, Len(s)), pat)
    ELSE <<s[1]>> \o RemoveAll(Tail(s), pat)

\* "\n<" + topic_name.upper() + ">\n"
FormatTopic(item) ==
    <<NL, "<">> \o Upper(Strip(RemoveAll(item.s, TOPIC_TAG))) \o <<">", NL>>

\* text += '.' when the last character is alphanumeric
WithPeriod(text) ==
    IF text # <<>> /\ IsAlnum(text[Len(text)]) THEN Append(text, ".") ELSE text

\* FormatUnit with the period kept for the non-bullet units
FormatUnitPlainBullet(p) ==
    IF Len(p.text) < MinParagraphChars /\ ~p.is_bullet THEN <<>>
    ELSE IF p.is_bullet THEN <<"-", " ">> \o p.text \o <<NL>>
    ELSE WithPeriod(p.text) \o <<NL, NL>>

\* FormatUnit with units of exactly 30 characters dropped as well
FormatUnitDropAtMinimum(p) ==
    IF Len(p.text) <= MinParagraphChars /\ ~p.is_bullet THEN <<>>
    ELSE IF p.is_bullet THEN <<"-", " ">> \o WithPeriod(p.text) \o <<NL>>
    ELSE WithPeriod(p.text) \o <<NL, NL>>

\* what one paragraph unit adds to output_parts
FormatUnit(p) ==
    IF Len(p.text) < MinParagraphChars /\ ~p.is_bullet THEN <<>>
    ELSE IF p.is_bullet THEN <<"-", " ">> \o WithPeriod(p.text) \o <<NL>>
    ELSE WithPeriod(p.text) \o <<NL, NL>>

FormatUnits(ps) == Concat([k \in DOMAIN ps |-> FormatUnit(ps[k])])

\* lines_with_indent = [(ln, indent) for ln, indent in item if ln.strip()]
LinesWithIndent(lines) == SelectSeq(lines, LAMBDA l : Strip(l.text) # <<>>)

FormatItem(item) ==
    IF IsTopic(item) THEN FormatTopic(item)
    ELSE FormatUnits(JoinParagraphLines(LinesWithIndent(item.lines)))

FormatAll(fc) == Concat([k \in DOMAIN fc |-> FormatItem(fc[k])])

----------------------------------------------------------------------------
(* text_processing.split_into_topics: the topic demultiplexer.             *)

\* text.split("\n")
RECURSIVE SplitLines(_)
SplitLines(text) ==
    IF NL \notin Range(text) THEN <<text>>
    ELSE LET k == CHOOSE j \in DOMAIN text :
                      text[j] = NL /\ \A m \in 1..(j - 1) : text[m] # NL
         IN  <<SubSeq(text, 1, k - 1)>> \o SplitLines(SubSeq(text, k + 1, Len(text)))

\* _TOPIC_HEADER_RE.match(line), the pattern ^<.*>$
TopicHeaderMatch(line) ==
    /\ Len(line) >= 2
    /\ line[1] = "<"
    /\ line[Len(line)] = ">"
    /\ NL \notin Range(line)

DashChars == {"-", ENDASH}

\* the whitespace at k belongs to a run of whitespace that touches a dash
TouchesDash(s, k) ==
    \/ \E j \in (k + 1)..Len(s) :
          s[j] \in DashChars /\ \A m \in (k + 1)..(j - 1) : s[m] \in Whitespace
    \/ \E j \in 1..(k - 1) :
          s[j] \in DashChars /\ \A m \in (j + 1)..(k - 1) : s[m] \in Whitespace

\* _DASH_RE.sub(': ', block), the pattern \s*[-–]+\s*: every run of dashes,
\* with the whitespace around it, becomes ': '
DashSub(s) ==
    LET first(k) == IF s[k] \in DashChars
                    THEN (IF k = 1 \/ s[k - 1] \notin DashChars THEN ":" ELSE "")
                    ELSE IF s[k] \in Whitespace /\ TouchesDash(s, k) THEN ""
                    ELSE s[k]
        second(k) == IF s[k] \in DashChars /\ (k = 1 \/ s[k - 1] \notin DashChars)
                     THEN " " ELSE ""
        both == [i \in 1..(2 * Len(s)) |->
                    IF i % 2 = 1 THEN first((i + 1) \div 2) ELSE second(i \div 2)]
    IN  SelectSeq(both, LAMBDA c : c # "")

\* the sentence tokenizer (nltk.sent_tokenize): a sentence ends after '.', '!'
\* or '?' followed by whitespace
RECURSIVE SentTokenize(_)
SentTokenize(block) ==
    LET ends == {k \in 1..(Len(block) - 1) :
                    block[k] \in TerminalPunct /\ block[k + 1] \in Whitespace}
    IN  IF Strip(block) = <<>> THEN <<>>
        ELSE IF ends = {} THEN <<Strip(block)>>
        ELSE LET k == CHOOSE e \in ends : \A o \in ends : e <= o
             IN  <<Strip(SubSeq(block, 1, k))>>
                 \o SentTokenize(Strip(SubSeq(block, k + 1, Len(block))))

\* flush_buffer(topic, buf)
FlushBuffer(b) ==
    IF b # <<>>
    THEN SentTokenize(DashSub(Strip(CollapseWhitespace(Join(<<" ">>, b)))))
    ELSE <<>>

\* the dict topics as the list of its [key, val] in insertion order
HasKey(d, key) == \E k \in DOMAIN d : d[k].key = key
DictGet(d, key) == d[CHOOSE k \in DOMAIN d : d[k].key = key].val
Keys(d) == [k \in DOMAIN d |-> d[k].key]

\* d[key] = val
DictSet(d, key, val) ==
    IF HasKey(d, key)
    THEN [k \in DOMAIN d |-> IF d[k].key = key THEN [key |-> key, val |-> val] ELSE d[k]]
    ELSE Append(d, [key |-> key, val |-> val])

\* d[key].extend(items)
DictExtend(d, key, items) ==
    [k \in DOMAIN d |->
        IF d[k].key = key THEN [key |-> key, val |-> d[k].val \o items] ELSE d[k]]

UnnamedTopic == <<"U","n","n","a","m","e","d"," ","T","o","p","i","c">>

\* topics[current_topic] = []
OpenTopic(d, name) == DictSet(d, name, <<>>)

\* if current_topic and buffer: topics[current_topic].extend(flush_buffer(...))
FlushTopic(st) ==
    IF (~st.current_topic.none) /\ st.current_topic.name # <<>> /\ st.buffer # <<>>
    THEN DictExtend(st.topics, st.current_topic.name, FlushBuffer(st.buffer))
    ELSE st.topics

\* the name a marker line gives its topic
TopicNameOf(line) ==
    LET topic_name == Strip(StripChars(line, {"<", ">"}))
    IN  IF topic_name # <<>> THEN topic_name ELSE UnnamedTopic

\* one iteration of the loop of split_into_topics on [topics, current_topic, buffer]
SplitLine(st, raw) ==
    LET line == Strip(raw)
    IN  IF TopicHeaderMatch(line)
        THEN [topics |-> OpenTopic(FlushTopic(st), TopicNameOf(line)),
              current_topic |-> [none |-> FALSE, name |-> TopicNameOf(line)],
              buffer |-> <<>>]
        ELSE IF line # <<>>
        THEN [st EXCEPT !.buffer = Append(st.buffer, line)]
        ELSE st

RECURSIVE SplitFrom(_, _, _)
SplitFrom(ls, k, st) ==
    IF k > Len(ls) THEN st ELSE SplitFrom(ls, k + 1, SplitLine(st, ls[k]))

\* split_into_topics(text)
SplitIntoTopics(text) ==
    FlushTopic(SplitFrom(SplitLines(text), 1,
        [topics |-> <<>>, current_topic |-> [none |-> TRUE, name |-> <<>>],
         buffer |-> <<>>]))

----------------------------------------------------------------------------
(* extract_topics_from_pdf run on a document the span provider yields line *)
(* by line.                                                                *)

MaxLines == 5
MaxPages == 2
MaxPagedLines == 2
MaxSamplePages == 2
DefaultSamplePages == 4

FontSizes == {10, 20}
ScanTexts == {<<"a", "b">>, <<"a", "b", "c">>}

\* the page of the line read last
LastPage == IF page_lines = <<>> THEN 0 ELSE page_lines[Len(page_lines)].page

\* the values of the variables of a function that is not running
ScanIdle ==
    /\ fast = FALSE
    /\ sample_pages = DefaultSamplePages
    /\ total_pages = 0
    /\ font_acc = WelfordInit
    /\ page_lines = <<>>
    /\ threshold = HeadingThreshold(WelfordInit)

FilterIdle ==
    /\ structured_content = <<>>
    /\ filtered_content = <<>>
    /\ fi = 1

JoinIdle ==
    /\ lines_with_indent = <<>>
    /\ median_indent = 0
    /\ jk = 1
    /\ out = <<>>
    /\ buf = <<>>

NoTopic == [none |-> TRUE, name |-> <<>>]

SplitIdle ==
    /\ text_lines = <<>>
    /\ tk = 1
    /\ topics = <<>>
    /\ current_topic = NoTopic
    /\ buffer = <<>>

\* the threads that call get_model_tokenizer_device
NumThreads == 2
Threads == 1..NumThreads

\* config.py at import, no call made
ConfigIdle ==
    /\ MODEL = [none |-> TRUE, id |-> 0, on_device |-> FALSE, eval_mode |-> FALSE]
    /\ TOKENIZER = [none |-> TRUE, id |-> 0]
    /\ LOCK = 0
    /\ tpc = [t \in Threads |-> "idle"]
    /\ calls = [t \in Threads |-> 0]
    /\ ret = [t \in Threads |-> <<>>]
    /\ loads = [tokenizer |-> 0, model |-> 0]

InitExtract ==
    /\ pc = "scan"
    /\ \E f \in BOOLEAN, sp \in 1..MaxSamplePages :
          /\ fast = f
          /\ sample_pages = IF f THEN sp ELSE DefaultSamplePages
    /\ total_pages \in 0..MaxPages
    /\ font_acc = WelfordInit
    /\ page_lines = <<>>
    /\ threshold = HeadingThreshold(WelfordInit)
    /\ FilterIdle
    /\ output = <<>>
    /\ JoinIdle
    /\ SplitIdle
    /\ ConfigIdle

\* the lines a document may have: documents of several pages are kept shorter
LineBound == IF total_pages <= 1 THEN MaxLines ELSE MaxPagedLines

\* the body of the loop over the lines of the pages, for one non-empty line
ScanLine ==
    /\ pc = "scan"
    /\ Len(page_lines) < LineBound
    /\ \E p \in LastPage..(total_pages - 1), t \in ScanTexts, sz \in FontSizes :
          /\ font_acc' = IF FeedsStats(fast, total_pages, sample_pages, p)
                         THEN WelfordAdd(font_acc, sz) ELSE font_acc
          /\ page_lines' = Append(page_lines, [page |-> p, text |-> t, size |-> sz, x |-> 0])
    /\ UNCHANGED <<configVars, pc, fast, sample_pages, total_pages, threshold, filterVars, output,
                   joinVars, splitVars>>

\* if font_acc.n == 0: return ""
ReturnEmpty ==
    /\ pc = "scan"
    /\ font_acc.n = 0
    /\ pc' = "done"
    /\ output' = <<>>
    /\ UNCHANGED <<configVars, scanVars, filterVars, joinVars, splitVars>>

ComputeThreshold ==
    /\ pc = "scan"
    /\ font_acc.n # 0
    /\ threshold' = HeadingThreshold(font_acc)
    /\ pc' = "segment"
    /\ UNCHANGED <<configVars, fast, sample_pages, total_pages, font_acc, page_lines, filterVars,
                   output, joinVars, splitVars>>

Segment ==
    /\ pc = "segment"
    /\ structured_content' = SegmentAll(page_lines, threshold)
    /\ fi' = 1
    /\ pc' = "filter"
    /\ UNCHANGED <<configVars, scanVars, filtered_content, output, joinVars, splitVars>>

\* one iteration of the while loop of the noise filter
FilterIter ==
    /\ pc = "filter"
    /\ fi <= Len(structured_content)
    /\ LET r == FilterStep(structured_content, fi, filtered_content)
       IN  fi' = r.i /\ filtered_content' = r.fc
    /\ UNCHANGED <<configVars, pc, scanVars, structured_content, output, joinVars, splitVars>>

FilterDone ==
    /\ pc = "filter"
    /\ fi > Len(structured_content)
    /\ pc' = "format"
    /\ UNCHANGED <<configVars, scanVars, filterVars, output, joinVars, splitVars>>

Format ==
    /\ pc = "format"
    /\ output' = FormatAll(filtered_content)
    /\ pc' = "done"
    /\ UNCHANGED <<configVars, scanVars, filterVars, joinVars, splitVars>>

Init == InitExtract

Next ==
    \/ ScanLine
    \/ ReturnEmpty
    \/ ComputeThreshold
    \/ Segment
    \/ FilterIter
    \/ FilterDone
    \/ Format

Spec == Init /\ [][Next]_vars

----------------------------------------------------------------------------
(* The noise filter run on the structured sequences of a small palette.    *)

MaxItems == 3

Line(text) == [text |-> text, x |-> 0]

HeadingTexts == {<<"A", "b", "c">>, <<"X", "y", "z">>}

\* content blocks by the lengths of their lines
BlockOf(lens) == [k \in DOMAIN lens |-> Line(Rep("a", lens[k]))]

BlockShapes ==
    { <<40>>, <<80>>, <<39, 39>>, <<40, 39>>, <<40, 40>>,
      <<8, 8, 8, 8, 8>>, <<8, 8, 8, 8, 8, 10>> }

FilterItems ==
    {TopicItem(h) : h \in HeadingTexts} \cup {ContentItem(BlockOf(b)) : b \in BlockShapes}

\* what the segmenter can build: no empty content block, no two content
\* blocks side by side
Segmented(sc) ==
    \A k \in 1..(Len(sc) - 1) : sc[k].isstr \/ sc[k + 1].isstr

FilterInputs ==
    UNION {{sc \in [1..n -> FilterItems] : Segmented(sc)} : n \in 0..MaxItems}

InitFilter ==
    /\ pc = "filter"
    /\ ScanIdle
    /\ structured_content \in FilterInputs
    /\ filtered_content = <<>>
    /\ fi = 1
    /\ output = <<>>
    /\ JoinIdle
    /\ SplitIdle
    /\ ConfigIdle

NextFilter ==
    \/ FilterIter
    \/ FilterDone
    \/ Format

SpecFilter == InitFilter /\ [][NextFilter]_vars

\* the heading at k of the structured sequence and the block after it stand
\* side by side in the filtered sequence
PairRetained(k) ==
    \E j \in 1..(Len(filtered_content) - 1) :
        /\ filtered_content[j] = structured_content[k]
        /\ filtered_content[j + 1] = structured_content[k + 1]

\* a heading at k immediately followed by a content block
HeadingWithBlock(k) ==
    /\ k + 1 <= Len(structured_content)
    /\ IsTopic(structured_content[k])
    /\ ~IsTopic(structured_content[k + 1])

\* C1: once the filter has run, every heading that is immediately followed by
\* a content block meeting the minimum-substance rule is retained together
\* with that block, whatever precedes the heading.
C1_HeadingJudgedByNextBlock ==
    pc = "format" =>
        \A k \in DOMAIN structured_content :
            (HeadingWithBlock(k) /\ BlockRetained(structured_content[k + 1].lines))
                => PairRetained(k)

\* the rule of C2: the line texts put end to end have 80 characters or more
\* and there are 2 lines or more, or there are 6 lines or more
SubstanceEndToEnd(blockLines) ==
    LET cl == ContentLines(blockLines)
    IN  \/ Len(Concat(cl)) >= MinBlockChars /\ Len(cl) >= MinBlockLines
        \/ Len(cl) >= MinManyLines

\* C2: once the filter has run, a heading immediately followed by a content
\* block is retained with it if and only if the block meets the rule on the
\* end-to-end length; otherwise neither the heading nor the block is kept.
C2_RetainedIffEndToEndSubstance ==
    pc = "format" =>
        \A k \in DOMAIN structured_content :
            HeadingWithBlock(k) =>
                IF SubstanceEndToEnd(structured_content[k + 1].lines)
                THEN PairRetained(k)
                ELSE /\ structured_content[k] \notin Range(filtered_content)
                     /\ structured_content[k + 1] \notin Range(filtered_content)

----------------------------------------------------------------------------
(* split_into_topics run on marker text, one line per step.                *)

MaxTextLines == 3

Sentence(c) == <<UpperChar(c), c, c, ".">>

MarkerLines ==
    { <<"<", "A", ">">>, <<"<", "B", ">">>, <<"<", ">">>, <<"<", " ", ">">>,
      <<"<", "<", "A", ">", ">">>, <<>>,
      Sentence("p"), Sentence("q") \o <<" ">> \o Sentence("r"), <<"-", " ", "x">> }

MarkerTexts ==
    UNION {{Join(<<NL>>, ls) : ls \in [1..n -> MarkerLines]} : n \in 0..MaxTextLines}

InitTopics ==
    /\ pc = "split"
    /\ ScanIdle
    /\ FilterIdle
    /\ JoinIdle
    /\ output \in MarkerTexts
    /\ text_lines = SplitLines(output)
    /\ tk = 1
    /\ topics = <<>>
    /\ current_topic = NoTopic
    /\ buffer = <<>>
    /\ ConfigIdle

SplitState == [topics |-> topics, current_topic |-> current_topic, buffer |-> buffer]

\* one iteration of the loop over the lines
SplitIter ==
    /\ pc = "split"
    /\ tk <= Len(text_lines)
    /\ LET r == SplitLine(SplitState, text_lines[tk])
       IN  /\ topics' = r.topics
           /\ current_topic' = r.current_topic
           /\ buffer' = r.buffer
    /\ tk' = tk + 1
    /\ UNCHANGED <<configVars, pc, scanVars, filterVars, output, joinVars, text_lines>>

\* the flush of the last topic, and the return
SplitReturn ==
    /\ pc = "split"
    /\ tk > Len(text_lines)
    /\ topics' = FlushTopic(SplitState)
    /\ pc' = "returned"
    /\ UNCHANGED <<configVars, scanVars, filterVars, output, joinVars, text_lines, tk,
                   current_topic, buffer>>

NextTopics ==
    \/ SplitIter
    \/ SplitReturn

SpecTopics == InitTopics /\ [][NextTopics]_vars

\* the marker lines of the text, and the content lines each one owns: the
\* non-blank lines after it up to the next marker line
IsMarkerAt(k) == TopicHeaderMatch(Strip(text_lines[k]))

SectionEnd(k) ==
    IF \E j \in (k + 1)..Len(text_lines) : IsMarkerAt(j)
    THEN (CHOOSE j \in (k + 1)..Len(text_lines) :
              IsMarkerAt(j) /\ \A m \in (k + 1)..(j - 1) : ~IsMarkerAt(m)) - 1
    ELSE Len(text_lines)

SectionSentences(k) ==
    LET body == SubSeq(text_lines, k + 1, SectionEnd(k))
        stripped == [j \in DOMAIN body |-> Strip(body[j])]
    IN  FlushBuffer(SelectSeq(stripped, LAMBDA l : l # <<>>))

\* the sentences of every occurrence of the topic name, first occurrence first
RECURSIVE AccumulatedFrom(_, _)
AccumulatedFrom(k, name) ==
    IF k > Len(text_lines) THEN <<>>
    ELSE (IF IsMarkerAt(k) /\ TopicNameOf(Strip(text_lines[k])) = name
          THEN SectionSentences(k) ELSE <<>>)
         \o AccumulatedFrom(k + 1, name)

\* C3: when the whole text is processed, the entry of every topic holds the
\* sentences of each of its occurrences, in order, none of them lost.
C3_RepeatedTopicAccumulates ==
    pc = "returned" =>
        \A k \in DOMAIN topics : topics[k].val = AccumulatedFrom(1, topics[k].key)

----------------------------------------------------------------------------
(* summarize_pdf: the formatter's text handed to split_into_topics.        *)

\* topics = split_into_topics(extracted_text)
SplitCall ==
    /\ pc = "done"
    /\ text_lines' = SplitLines(output)
    /\ tk' = 1
    /\ topics' = <<>>
    /\ current_topic' = NoTopic
    /\ buffer' = <<>>
    /\ pc' = "split"
    /\ UNCHANGED <<configVars, scanVars, filterVars, output, joinVars>>

BracketHeading == <<"<", "a", "b", ">">>

RoundTripHeadings == HeadingTexts \cup {BracketHeading}

\* a block of two lines that reflow to one paragraph, and a block whose
\* first line is a paragraph wrapped in angle brackets
ProseBlock ==
    << Line(<<"A">> \o Rep("a", 39)), Line(Rep("a", 39) \o <<".">>) >>

BracketBlock ==
    << Line(<<"<">> \o Rep("a", 38) \o <<">">>), Line(<<"A">> \o Rep("a", 38) \o <<".">>) >>

RoundTripItems ==
    {TopicItem(h) : h \in RoundTripHeadings}
        \cup {ContentItem(ProseBlock), ContentItem(BracketBlock)}

RoundTripInputs ==
    UNION {{sc \in [1..n -> RoundTripItems] : Segmented(sc)} : n \in 0..MaxItems}

InitRoundTrip ==
    /\ pc = "filter"
    /\ ScanIdle
    /\ structured_content \in RoundTripInputs
    /\ filtered_content = <<>>
    /\ fi = 1
    /\ output = <<>>
    /\ JoinIdle
    /\ SplitIdle
    /\ ConfigIdle

NextRoundTrip ==
    \/ FilterIter
    \/ FilterDone
    \/ Format
    \/ SplitCall
    \/ SplitIter
    \/ SplitReturn

SpecRoundTrip == InitRoundTrip /\ [][NextRoundTrip]_vars

\* the uppercased texts of the headings of a filtered sequence, in order
HeadingText(item) == SubSeq(item.s, Len(TOPIC_TAG) + 1, Len(item.s))

SurvivingHeadings(fc) ==
    LET heads == SelectSeq(fc, LAMBDA item : IsTopic(item))
    IN  [k \in DOMAIN heads |-> Upper(HeadingText(heads[k]))]

\* a list without the later occurrences of its elements
FirstSeen(seq) ==
    LET keep == {k \in DOMAIN seq : \A j \in 1..(k - 1) : seq[j] # seq[k]}
        pos(n) == CHOOSE k \in keep : Cardinality({j \in keep : j < k}) = n - 1
    IN  [n \in 1..Cardinality(keep) |-> seq[pos(n)]]

\* C4: the keys of the topic map split_into_topics builds from the formatter's
\* text are, in order, the uppercased texts of the headings that survived the
\* filter (each name once, at its first place): no extra topic, none missing.
C4_RoundTripTopicNames ==
    pc = "returned" => Keys(topics) = FirstSeen(SurvivingHeadings(filtered_content))

----------------------------------------------------------------------------
(* Claims on the scan, the threshold and the segmenter.                    *)

\* the line texts of a structured sequence, headings and content alike
ItemTexts(item) ==
    IF IsTopic(item) THEN <<HeadingText(item)>>
    ELSE [k \in DOMAIN item.lines |-> item.lines[k].text]

StructuredTexts(sc) == Concat([k \in DOMAIN sc |-> ItemTexts(sc[k])])

ScannedTexts == [k \in DOMAIN page_lines |-> page_lines[k].text]

\* C5: when extract_topics_from_pdf returns, every non-empty line of every
\* page, sampled or not, has entered the structured sequence, in fast mode
\* too and also when the only text is on pages outside the sampled set.
C5_AllLinesEnterStructuredSequence ==
    pc = "done" => StructuredTexts(structured_content) = ScannedTexts

\* the batch statistics of the sampled lines: their number, the sum of their
\* sizes and the sum of the squares of their sizes
SampledSizes ==
    LET fed == SelectSeq(page_lines,
                   LAMBDA l : FeedsStats(fast, total_pages, sample_pages, l.page))
    IN  [k \in DOMAIN fed |-> fed[k].size]

RECURSIVE Sum(_)
Sum(nums) == IF nums = <<>> THEN 0 ELSE nums[1] + Sum(Tail(nums))

SumSq(nums) == Sum([k \in DOMAIN nums |-> nums[k] * nums[k]])

\* size >= mean + 0.8 * pstdev of n sizes of sum S and sum of squares Q, in
\* integers: n*size - S >= 0 and 25 * (n*size - S)^2 >= 16 * (n*Q - S^2)
BatchHeadingSize(size, n, S, Q) ==
    /\ n * size - S >= 0
    /\ 25 * (n * size - S) * (n * size - S) >= 16 * (n * Q - S * S)

\* for every line of a structured sequence, whether it is a heading
ItemKinds(item) ==
    IF IsTopic(item) THEN <<TRUE>> ELSE [k \in DOMAIN item.lines |-> FALSE]

StructuredKinds(sc) == Concat([k \in DOMAIN sc |-> ItemKinds(sc[k])])

Segmented10to20 ==
    /\ ~fast
    /\ [k \in DOMAIN page_lines |-> page_lines[k].size] = <<10, 10, 10, 10, 20>>
    /\ \A k \in DOMAIN page_lines : Len(page_lines[k].text) > 2
    /\ pc = "filter"

\* C6: the threshold in use after the scan is mean + 0.8 * population
\* standard deviation of all the sampled sizes, and the segmenter makes a
\* line a heading exactly when its size reaches it and its text is longer
\* than 2 characters; of the sizes 10,10,10,10,20 only the last is a heading.
C6_HeadingIffAtLeastThreshold ==
    (pc \in {"segment", "filter", "format"} \/ (pc = "done" /\ font_acc.n > 0)) =>
        LET sizes == SampledSizes
            n == Len(sizes)
            S == Sum(sizes)
            Q == SumSq(sizes)
        IN  /\ threshold.mean = Rat(S, n)
            /\ threshold.var = Rat(n * Q - S * S, n * n)
            /\ pc # "segment" =>
                  StructuredKinds(structured_content) =
                      [k \in DOMAIN page_lines |->
                          /\ BatchHeadingSize(page_lines[k].size, n, S, Q)
                          /\ Len(page_lines[k].text) > 2]
            /\ Segmented10to20 =>
                  StructuredKinds(structured_content) = <<FALSE, FALSE, FALSE, FALSE, TRUE>>

C6_Witness ==
    /\ Segmented10to20
    /\ threshold = [mean |-> <<12, 1>>, var |-> <<16, 1>>]
    /\ Len(structured_content) = 2
    /\ IsTopic(structured_content[2])

----------------------------------------------------------------------------
(* join_paragraph_lines run on the blocks of a small palette, one line per *)
(* step, and its units formatted.                                          *)

MaxBlockLines == 3

At(text, x) == [text |-> text, x |-> x]

WordText == <<"W", "o", "r", "d">>
LongText == <<"A">> \o Rep("a", 29)
ShortText == <<"B">> \o Rep("b", 28)

JoinLines ==
    { At(<<BULLET, " ", "f", "i", "r", "s", "t", " ", "i", "t", "e", "m">>, 0),
      At(<<"-", " ", "f", "i", "r", "s", "t", " ", "i", "t", "e", "m">>, 0),
      At(<<"1", ")", " ", "o", "n", "e">>, 0),
      At(<<BULLET>>, 0),
      At(<<"e", "x", "a", "m", "-">>, 0),
      At(<<"p", "l", "e", " ", "s", "e", "n", "t", "e", "n", "c", "e", ".">>, 0),
      At(<<"l", "o", "w">>, 0),
      At(<<"W", "h", "y", "?">>, 0),
      At(LongText, 0),
      At(ShortText, 0),
      At(WordText, 15) }

JoinInputs == UNION {[1..n -> JoinLines] : n \in 0..MaxBlockLines}

InitJoin ==
    /\ pc = "join"
    /\ ScanIdle
    /\ FilterIdle
    /\ output = <<>>
    /\ lines_with_indent \in JoinInputs
    /\ median_indent = MedianIndent2(lines_with_indent)
    /\ jk = 1
    /\ out = <<>>
    /\ buf = <<>>
    /\ SplitIdle
    /\ ConfigIdle

\* one iteration of the loop over lines_with_indent
JoinIter ==
    /\ pc = "join"
    /\ jk <= Len(lines_with_indent)
    /\ LET r == JoinLine([out |-> out, buf |-> buf], lines_with_indent[jk], median_indent)
       IN  out' = r.out /\ buf' = r.buf
    /\ jk' = jk + 1
    /\ UNCHANGED <<configVars, pc, scanVars, filterVars, output, lines_with_indent, median_indent,
                   splitVars>>

\* the flush of the remaining buffer, and the return
JoinReturn ==
    /\ pc = "join"
    /\ jk > Len(lines_with_indent)
    /\ out' = JoinFinish([out |-> out, buf |-> buf])
    /\ buf' = <<>>
    /\ pc' = "joined"
    /\ UNCHANGED <<configVars, scanVars, filterVars, output, lines_with_indent, median_indent, jk,
                   splitVars>>

\* the loop over the paragraphs of one content item
FormatParagraphs ==
    /\ pc = "joined"
    /\ output' = FormatUnits(out)
    /\ pc' = "done"
    /\ UNCHANGED <<configVars, scanVars, filterVars, joinVars, splitVars>>

NextJoin ==
    \/ JoinIter
    \/ JoinReturn
    \/ FormatParagraphs

SpecJoin == InitJoin /\ [][NextJoin]_vars

\* the line the next iteration of join_paragraph_lines reads, and its
\* cleaned text
NextLine == lines_with_indent[jk]
NextClean == CleanLine(RStrip(NextLine.text))
AtLine == pc = "join" /\ jk <= Len(lines_with_indent)

\* the list-item rule of C7: a bullet glyph, '*', '-' or digits with '.' or
\* ')', followed by whitespace, or an offset more than 10 past the median
ListItemByRule(l, median2) ==
    BulletMatch(RStrip(l.text), BulletDetectGlyphs) \/ 2 * l.x - median2 > 2 * IndentMargin

\* the texts of the bullet units of a list of units, in order
BulletTexts(units) ==
    LET bullets == SelectSeq(units, LAMBDA u : u.is_bullet)
    IN  [k \in DOMAIN bullets |-> bullets[k].text]

\* C7: the lines join_paragraph_lines turns into bullet units are exactly
\* the lines that are list items by the rule (those with text left after
\* cleaning), in order.
C7_ListItemIffPrefixOrIndent ==
    pc = "joined" =>
        LET items == SelectSeq(lines_with_indent,
                         LAMBDA l : /\ ListItemByRule(l, median_indent)
                                    /\ CleanLine(RStrip(l.text)) # <<>>)
        IN  BulletTexts(out) = [k \in DOMAIN items |-> CleanLine(RStrip(items[k].text))]

\* the units that reach the output: the bullets, and the others of 30
\* characters or more
Written(units) ==
    SelectSeq(units, LAMBDA u : u.is_bullet \/ Len(u.text) >= MinParagraphChars)

LastAlnum(text) == text # <<>> /\ IsAlnum(text[Len(text)])

\* the text with a period after it when its last character is alphanumeric
Terminated(text) == IF LastAlnum(text) THEN text \o <<".">> ELSE text

\* C8 as stated: a bullet unit is written '- ', its text unchanged and one
\* newline; another unit is written as its text, with a period when its last
\* character is alphanumeric, and two newlines.
C8_NoPeriodOnBullets ==
    pc = "done" =>
        LET w == Written(out)
        IN  output = Concat([k \in DOMAIN w |->
                        IF w[k].is_bullet THEN <<"-", " ">> \o w[k].text \o <<NL>>
                        ELSE Terminated(w[k].text) \o <<NL, NL>>])

\* C8, amended: a bullet unit is written '- ', its text and one newline,
\* another unit as its text and two newlines, and in both the text gets a
\* period exactly when its last character is alphanumeric.
C8_PeriodOnEveryUnit ==
    pc = "done" =>
        LET w == Written(out)
        IN  output = Concat([k \in DOMAIN w |->
                        IF w[k].is_bullet THEN <<"-", " ">> \o Terminated(w[k].text) \o <<NL>>
                        ELSE Terminated(w[k].text) \o <<NL, NL>>])

\* a bullet and a paragraph that end in a letter have been written
C8_Witness ==
    /\ pc = "done"
    /\ \E k \in DOMAIN out : out[k].is_bullet /\ LastAlnum(out[k].text)
    /\ \E k \in DOMAIN out :
          ~out[k].is_bullet /\ Len(out[k].text) >= MinParagraphChars
              /\ LastAlnum(out[k].text)
    /\ output # <<>>

\* the non-list line with text left after cleaning that the next iteration
\* reads (a line that cleans to nothing is skipped before any rule applies)
AtProseLine ==
    AtLine /\ ~IsBulletLine(NextLine, median_indent) /\ NextClean # <<>>

\* the buffer without its trailing hyphen, followed by the line, no space
Dehyphenated == SubSeq(buf, 1, Len(buf) - 1) \o NextClean

\* out and buf after a line has made the paragraph `para`, with `done` the
\* units completed so far: the paragraph is completed when it ends in
\* '.', '!' or '?'
ParagraphBecomes(done, para) ==
    IF EndsInTerminal(para)
    THEN out' = Append(done, Unit(para, FALSE)) /\ buf' = <<>>
    ELSE out' = done /\ buf' = para

HyphenExample ==
    << At(<<"e", "x", "a", "m", "-">>, 0),
       At(<<"p", "l", "e", " ", "s", "e", "n", "t", "e", "n", "c", "e", ".">>, 0) >>

HyphenExampleUnit ==
    Unit(<<"e", "x", "a", "m", "p", "l", "e", " ",
           "s", "e", "n", "t", "e", "n", "c", "e", ".">>, FALSE)

\* one step of C9: a buffer that ends in a hyphen takes the next non-list
\* line with the hyphen deleted and no space, whatever the line starts with
DehyphenateStep ==
    (AtProseLine /\ EndsWith(buf, "-")) => ParagraphBecomes(out, Dehyphenated)

\* C9: whenever the buffer ends in a hyphen and the next line is not a list
\* item, the line is merged by deleting the hyphen and concatenating with no
\* space, whatever the case of its first character; the lines 'exam-' and
\* 'ple sentence.' reflow to the single unit 'example sentence.'.
C9_Dehyphenation ==
    /\ [][DehyphenateStep]_vars
    /\ []((pc = "joined" /\ lines_with_indent = HyphenExample)
              => out = <<HyphenExampleUnit>>)

\* the hyphenated example has been reflowed
C9_Witness ==
    /\ pc = "joined"
    /\ lines_with_indent = HyphenExample
    /\ out = <<HyphenExampleUnit>>

\* the line is merged into the paragraph in progress
MergedByRule ==
    /\ buf # <<>>
    /\ ~EndsInTerminal(buf)
    /\ EndsWith(buf, "-") \/ IsLower(NextClean[1])

\* one step of C10: a non-list line is merged exactly when MergedByRule
\* holds; otherwise the paragraph in progress is completed and the line
\* starts a new one
JoinRuleStep ==
    AtProseLine =>
        IF MergedByRule
        THEN ParagraphBecomes(out, IF EndsWith(buf, "-") THEN Dehyphenated
                                   ELSE buf \o <<" ">> \o NextClean)
        ELSE ParagraphBecomes(IF buf # <<>> THEN Append(out, Unit(buf, FALSE)) ELSE out,
                              NextClean)

\* C10: a non-list line is merged into the paragraph in progress if and only
\* if that paragraph does not end in '.', '!' or '?' and either ends in a
\* hyphen or the line starts with a lowercase character; otherwise the
\* paragraph in progress is emitted as a unit and the line starts a new one.
\* After each line, the buffer never ends in '.', '!' or '?'.
C10_JoinRule ==
    /\ [][JoinRuleStep]_vars
    /\ [](~EndsInTerminal(buf))

\* a short line, 'low' and 'Why?' have been read: the second line was merged
\* into the first, the third completed that paragraph and was itself
\* completed by its question mark
C10_Witness ==
    /\ pc = "join"
    /\ jk > Len(lines_with_indent)
    /\ lines_with_indent = <<At(ShortText, 0), At(<<"l", "o", "w">>, 0),
                             At(<<"W", "h", "y", "?">>, 0)>>
    /\ out = <<Unit(ShortText \o <<" ", "l", "o", "w">>, FALSE),
               Unit(<<"W", "h", "y", "?">>, FALSE)>>
    /\ buf = <<>>

\* a line join_paragraph_lines detects as a list item and that has text left
\* after cleaning
DetectedItem(l, median2) ==
    IsBulletLine(l, median2) /\ CleanLine(RStrip(l.text)) # <<>>

\* the first index from k on of a detected list item, or Len(lines) + 1
RECURSIVE NextItemFrom(_, _, _)
NextItemFrom(lines, k, median2) ==
    IF k > Len(lines) \/ DetectedItem(lines[k], median2) THEN k
    ELSE NextItemFrom(lines, k + 1, median2)

\* the units of the lines from k on when every run of lines between list
\* items is joined on its own and every list item is a unit of its own
RECURSIVE UnitsBetweenItems(_, _, _)
UnitsBetweenItems(lines, k, median2) ==
    IF k > Len(lines) THEN <<>>
    ELSE LET e == NextItemFrom(lines, k, median2)
             prose == JoinFinish(JoinFrom(SubSeq(lines, k, e - 1), 1,
                                          [out |-> <<>>, buf |-> <<>>], median2))
         IN  IF e > Len(lines) THEN prose
             ELSE prose \o <<Unit(CleanLine(RStrip(lines[e].text)), TRUE)>>
                        \o UnitsBetweenItems(lines, e + 1, median2)

\* one step on a detected list item: the pending buffer, if any, becomes a
\* unit, then the item becomes a bullet unit of its cleaned text alone
ListItemStep ==
    (AtLine /\ DetectedItem(NextLine, median_indent)) =>
        /\ out' = (IF buf # <<>> THEN Append(out, Unit(buf, FALSE)) ELSE out)
                      \o <<Unit(NextClean, TRUE)>>
        /\ buf' = <<>>

\* C11: each detected list item with non-empty cleaned text produces exactly
\* one bullet unit holding only that line's text, a pending buffer is emitted
\* as a unit before it (also when it ends in a hyphen), and no paragraph unit
\* holds text from both sides of a list item: the units of a block are those
\* of its runs of prose, each joined on its own, with the items in between.
C11_ListItemsNeverMerged ==
    /\ [][ListItemStep]_vars
    /\ [](pc = "joined" => out = UnitsBetweenItems(lines_with_indent, 1, median_indent))

\* a list item between 'exam-' and 'ple sentence.': three units, the hyphen kept
C11_Witness ==
    /\ pc = "joined"
    /\ lines_with_indent =
          << HyphenExample[1],
             At(<<BULLET, " ", "f", "i", "r", "s", "t", " ", "i", "t", "e", "m">>, 0),
             HyphenExample[2] >>
    /\ out = << Unit(HyphenExample[1].text, FALSE),
                Unit(<<"f", "i", "r", "s", "t", " ", "i", "t", "e", "m">>, TRUE),
                Unit(HyphenExample[2].text, FALSE) >>

\* the non-empty lines of the formatted output, in order: one per unit written
OutputLines(text) == SelectSeq(SplitLines(text), LAMBDA l : l # <<>>)

\* the line a unit is written as: '- ' before a bullet, the period after a
\* text that ends in a letter or digit
UnitLine(u) == (IF u.is_bullet THEN <<"-", " ">> ELSE <<>>) \o Terminated(u.text)

\* the units that pass the output filter
PassesFilter(u) == u.is_bullet \/ Len(u.text) >= MinParagraphChars

\* C12: of the units of join_paragraph_lines, a non-bullet unit appears in
\* the formatted output if and only if its text has 30 characters or more,
\* every bullet unit appears whatever its length, and the units that remain
\* keep their relative order.
C12_OutputFilter ==
    pc = "done" =>
        LET kept == SelectSeq(out, PassesFilter)
        IN  OutputLines(output) = [k \in DOMAIN kept |-> UnitLine(kept[k])]

\* a short bullet, a paragraph of exactly 30 characters and one of 29 have
\* been formatted
C12_Witness ==
    /\ pc = "done"
    /\ out = << Unit(<<"1", ")", " ", "o", "n", "e">>, TRUE),
                Unit(LongText, FALSE),
                Unit(ShortText, FALSE) >>
    /\ OutputLines(output) = << <<"-", " ", "1", ")", " ", "o", "n", "e", ".">>,
                                LongText \o <<".">> >>

\* the text between the first and the last character of a marker line,
\* trimmed, and the key it stands for
TrimmedInterior(line) == Strip(SubSeq(line, 2, Len(line) - 1))

InteriorKey(line) ==
    IF TrimmedInterior(line) = <<>> THEN UnnamedTopic ELSE TrimmedInterior(line)

MarkerIndexes == {k \in DOMAIN text_lines : IsMarkerAt(k)}

MarkerKey(k) == InteriorKey(Strip(text_lines[k]))

\* s ends with the sequence t
IsSuffix(t, s) ==
    Len(t) <= Len(s) /\ SubSeq(s, Len(s) - Len(t) + 1, Len(s)) = t

\* C13: for every text, each line fully wrapped in angle brackets has an
\* entry in the returned map under its trimmed interior ('Unnamed Topic' when
\* the interior is empty), a topic none of whose occurrences has content
\* lines maps to the empty list, and the entry of the last topic ends with
\* the sentences of the lines buffered at the end of the input.
C13_EveryMarkerHasEntry ==
    pc = "returned" =>
        /\ \A k \in MarkerIndexes : HasKey(topics, MarkerKey(k))
        /\ \A k \in MarkerIndexes :
              (\A j \in MarkerIndexes :
                   MarkerKey(j) = MarkerKey(k) => SectionSentences(j) = <<>>)
                  => (HasKey(topics, MarkerKey(k)) /\ DictGet(topics, MarkerKey(k)) = <<>>)
        /\ \A k \in MarkerIndexes :
              (\A j \in MarkerIndexes : j <= k)
                  => /\ HasKey(topics, MarkerKey(k))
                     /\ IsSuffix(SectionSentences(k), DictGet(topics, MarkerKey(k)))

\* the lines of an element of the structured sequence, each with its kind:
\* the line of a heading element, the lines of a content block
ItemLines(item) ==
    IF IsTopic(item)
    THEN <<[text |-> SubSeq(item.s, Len(TOPIC_TAG) + 1, Len(item.s)), heading |-> TRUE]>>
    ELSE [k \in DOMAIN item.lines |-> [text |-> item.lines[k].text, heading |-> FALSE]]

StructuredLines(sc) == Concat([k \in DOMAIN sc |-> ItemLines(sc[k])])

\* the lines of the document in order, each with its classification
ClassifiedLines ==
    [k \in DOMAIN page_lines |->
        [text |-> page_lines[k].text, heading |-> IsHeadingLine(page_lines[k], threshold)]]

\* the segmenter has run
AfterSegment == pc \in {"filter", "format"} \/ (pc = "done" /\ font_acc.n > 0)

\* C19: the structured sequence holds every line exactly once and in
\* document order, a heading line as a heading element and a content line
\* inside a content block; no content block is empty and no two are
\* adjacent; content lines before the first heading form one content block,
\* the first element, and the filter emits it, first.
C19_SegmenterConservation ==
    AfterSegment =>
        LET sc == structured_content
        IN  /\ StructuredLines(sc) = ClassifiedLines
            /\ \A k \in DOMAIN sc : ~IsTopic(sc[k]) => sc[k].lines # <<>>
            /\ \A k \in 1..(Len(sc) - 1) : IsTopic(sc[k]) \/ IsTopic(sc[k + 1])
            /\ (sc # <<>> /\ ~IsTopic(sc[1]) /\ pc \in {"format", "done"}) =>
                  filtered_content # <<>> /\ filtered_content[1] = sc[1]

\* two content lines before a heading: the filter has emitted their block
C19_Witness ==
    /\ pc = "format"
    /\ Len(structured_content) >= 2
    /\ ~IsTopic(structured_content[1])
    /\ Len(structured_content[1].lines) = 2
    /\ IsTopic(structured_content[2])
    /\ filtered_content[1] = structured_content[1]

\* every sampled line has the font size sz
SampledUniform(sz) == \A k \in DOMAIN SampledSizes : SampledSizes[k] = sz

\* every line of the document has the font size sz and more than 2 characters
AllLinesUniform(sz) ==
    \A k \in DOMAIN page_lines : page_lines[k].size = sz /\ Len(page_lines[k].text) > 2

\* C20: when every sampled line has the same font size, the standard
\* deviation is 0 and the threshold is that size, so every line of that size
\* with more than 2 characters is a heading; a document whose lines all have
\* one size and more than 2 characters has no content block, the filter
\* drops every heading and the output is empty.
C20_UniformFontAllHeadings ==
    AfterSegment =>
        \A sz \in FontSizes :
            SampledUniform(sz) =>
                /\ threshold = [mean |-> RInt(sz), var |-> RInt(0)]
                /\ \A k \in DOMAIN page_lines :
                      (page_lines[k].size = sz /\ Len(page_lines[k].text) > 2)
                          => StructuredLines(structured_content)[k].heading
                /\ AllLinesUniform(sz) =>
                      /\ \A k \in DOMAIN structured_content :
                            IsTopic(structured_content[k])
                      /\ pc \in {"format", "done"} => filtered_content = <<>>
                      /\ pc = "done" => output = <<>>

\* a document of three or more lines of one size, all longer than 2
\* characters, has been extracted: headings only, and nothing in the output
C20_Witness ==
    /\ pc = "done"
    /\ font_acc.n >= 3
    /\ Len(page_lines) >= 3
    /\ \E sz \in FontSizes : SampledUniform(sz) /\ AllLinesUniform(sz)
    /\ Len(structured_content) = Len(page_lines)
    /\ output = <<>>

----------------------------------------------------------------------------
(* The noise filter with its three minimums as parameters                  *)
(* [chars, lines, many]; the code has them at 80, 2 and 6.                 *)

DefaultMinimums ==
    [chars |-> MinBlockChars, lines |-> MinBlockLines, many |-> MinManyLines]

\* BlockRetainedWith with the test of the second branch turned round
BlockRetainedWithAtMost(lines, mins) ==
    LET cl == ContentLines(lines)
    IN  \/ Len(Join(<<" ">>, cl)) >= mins.chars /\ Len(cl) >= mins.lines
        \/ Len(cl) <= mins.many

\* the two branches under which a heading and its block are retained
BlockRetainedWith(lines, mins) ==
    LET cl == ContentLines(lines)
    IN  \/ Len(Join(<<" ">>, cl)) >= mins.chars /\ Len(cl) >= mins.lines
        \/ Len(cl) >= mins.many

\* one iteration of the filter loop at (1-based) index i: [i, fc]
FilterStepWith(sc, i, fc, mins) ==
    IF IsTopic(sc[i])
    THEN [i  |-> i + 2,
          fc |-> IF i + 1 <= Len(sc) /\ ~IsTopic(sc[i + 1])
                    /\ BlockRetainedWith(sc[i + 1].lines, mins)
                 THEN fc \o <<sc[i], sc[i + 1]>>
                 ELSE fc]
    ELSE [i |-> i + 1, fc |-> Append(fc, sc[i])]

RECURSIVE FilterFromWith(_, _, _, _)
FilterFromWith(sc, i, fc, mins) ==
    IF i > Len(sc) THEN fc
    ELSE LET r == FilterStepWith(sc, i, fc, mins) IN FilterFromWith(sc, r.i, r.fc, mins)

FilterAllWith(sc, mins) == FilterFromWith(sc, 1, <<>>, mins)

\* the minimums tried: the defaults and their neighbours
MinimumsTried ==
    [chars : {MinBlockChars - 1, MinBlockChars, MinBlockChars + 1},
     lines : {MinBlockLines, MinBlockLines + 1},
     many  : {MinManyLines - 1, MinManyLines, MinManyLines + 1}]

\* no minimum of p is above the one of q
NotAbove(p, q) == p.chars <= q.chars /\ p.lines <= q.lines /\ p.many <= q.many

\* C16: for every structured sequence, raising any of the three minimums of
\* the noise filter never increases the number of elements (headings and
\* content blocks) the filter retains; what the program retains is what the
\* filter retains at the minimums 80, 2 and 6.
C16_FilterMonotone ==
    pc \in {"format", "done"} =>
        LET retained == [p \in MinimumsTried |->
                            Len(FilterAllWith(structured_content, p))]
        IN  /\ \A p \in MinimumsTried : \A q \in MinimumsTried :
                  NotAbove(p, q) => retained[q] <= retained[p]
            /\ filtered_content = FilterAllWith(structured_content, DefaultMinimums)

\* the filter has run on a sequence of which it retains something, and less
\* when the character minimum is raised by one
C16_Witness ==
    /\ pc = "format"
    /\ filtered_content # <<>>
    /\ Len(FilterAllWith(structured_content,
                         [DefaultMinimums EXCEPT !.chars = MinBlockChars + 1]))
           < Len(filtered_content)

----------------------------------------------------------------------------
(* The accumulator on its own: font_acc.add(x) for sequences of sizes.     *)

MaxSizes == 4

\* 0 is the size of a span without one: span.get("size", 0)
WelfordSizes == {0, 9, 10, 12}

InitWelford ==
    /\ pc = "stats"
    /\ fast = FALSE
    /\ sample_pages = DefaultSamplePages
    /\ total_pages = 1
    /\ font_acc = WelfordInit
    /\ page_lines = <<>>
    /\ threshold = HeadingThreshold(WelfordInit)
    /\ FilterIdle
    /\ output = <<>>
    /\ JoinIdle
    /\ SplitIdle
    /\ ConfigIdle

\* font_acc.add(max_font_size) for one more line
AddSize ==
    /\ pc = "stats"
    /\ Len(page_lines) < MaxSizes
    /\ \E sz \in WelfordSizes :
          /\ font_acc' = WelfordAdd(font_acc, sz)
          /\ page_lines' = Append(page_lines,
                               [page |-> 0, text |-> <<"a", "b">>, size |-> sz, x |-> 0])
    /\ UNCHANGED <<configVars, pc, fast, sample_pages, total_pages, threshold, filterVars, output,
                   joinVars, splitVars>>

NextWelford == AddSize

SpecWelford == InitWelford /\ [][NextWelford]_vars

\* the sizes added so far, in order
AddedSizes == [k \in DOMAIN page_lines |-> page_lines[k].size]

\* the batch mean of a non-empty sequence of sizes
BatchMean(sizes) == Rat(Sum(sizes), Len(sizes))

\* the sum of the squared deviations of the sizes from the value m
RECURSIVE SumSqDev(_, _)
SumSqDev(sizes, m) ==
    IF sizes = <<>> THEN RInt(0)
    ELSE LET d == RSub(RInt(sizes[1]), m)
         IN  RAdd(RMul(d, d), SumSqDev(Tail(sizes), m))

\* the batch population variance of a non-empty sequence of sizes
BatchVariance(sizes) == RDivInt(SumSqDev(sizes, BatchMean(sizes)), Len(sizes))

\* C14: after add on each size of a sequence in order, the count is the
\* length of the sequence, the mean is the batch mean and variance() is the
\* batch population variance; with count 0, variance() and pstdev() are 0.
C14_WelfordMatchesBatch ==
    pc = "stats" =>
        /\ font_acc.n = Len(AddedSizes)
        /\ font_acc.n > 0 =>
              /\ font_acc.mean = BatchMean(AddedSizes)
              /\ WelfordVariance(font_acc) = BatchVariance(AddedSizes)
        /\ font_acc.n = 0 =>
              /\ WelfordVariance(font_acc) = RInt(0)
              /\ WelfordPstdevSq(font_acc) = RInt(0)

\* four sizes have been added whose mean is no integer and whose variance
\* is not 0
C14_Witness ==
    /\ pc = "stats"
    /\ font_acc.n = MaxSizes
    /\ font_acc.mean[2] # 1
    /\ WelfordVariance(font_acc) # RInt(0)

----------------------------------------------------------------------------
(* The scan on longer documents: which pages feed the font statistics.     *)

MaxDocPages == 4
MaxSampleCount == 3

InitSample ==
    /\ pc = "scan"
    /\ \E f \in BOOLEAN, sp \in 1..MaxSampleCount :
          /\ fast = f
          /\ sample_pages = IF f THEN sp ELSE DefaultSamplePages
    /\ total_pages \in 1..MaxDocPages
    /\ font_acc = WelfordInit
    /\ page_lines = <<>>
    /\ threshold = HeadingThreshold(WelfordInit)
    /\ FilterIdle
    /\ output = <<>>
    /\ JoinIdle
    /\ SplitIdle
    /\ ConfigIdle

NextSample == ScanLine

SpecSample == InitSample /\ [][NextSample]_vars

\* ceil(a / b) for b >= 1
CeilDiv(a, b) == (a + b - 1) \div b

\* the pages whose index is a multiple of ceil(total_pages / sample_count)
EveryCeilPage == {p \in 0..(total_pages - 1) : p % CeilDiv(total_pages, sample_pages) = 0}

\* the accumulator after the sizes of the lines of the given pages, in order
RECURSIVE FedFrom(_, _, _)
FedFrom(k, pages, acc) ==
    IF k > Len(page_lines) THEN acc
    ELSE FedFrom(k + 1, pages,
                 IF page_lines[k].page \in pages THEN WelfordAdd(acc, page_lines[k].size)
                 ELSE acc)

\* C15: in fast mode the lines that feed the font statistics are exactly
\* those of the pages whose index is a multiple of
\* ceil(total_pages / sample_count); outside fast mode the lines of every
\* page feed them.
C15_SampledPagesEveryCeil ==
    pc = "scan" =>
        font_acc = FedFrom(1, IF fast THEN EveryCeilPage ELSE 0..(total_pages - 1),
                           WelfordInit)

----------------------------------------------------------------------------
(* config.get_model_tokenizer_device called by the threads of one process. *)
(* A step of a thread is one read or one write of a module global, or one  *)
(* operation on the lock.                                                  *)

MaxCalls == 2

InitConfig ==
    /\ pc = "config"
    /\ ScanIdle
    /\ FilterIdle
    /\ output = <<>>
    /\ JoinIdle
    /\ SplitIdle
    /\ ConfigIdle

\* what a return statement hands to the caller: the objects the globals name
\* at that moment, in the state they are in
Returned == [model |-> MODEL, tokenizer |-> TOKENIZER]

Goto(t, label) == tpc' = [tpc EXCEPT ![t] = label]

\* a thread calls get_model_tokenizer_device()
Call(t) ==
    /\ pc = "config"
    /\ tpc[t] = "idle"
    /\ calls[t] < MaxCalls
    /\ calls' = [calls EXCEPT ![t] = @ + 1]
    /\ Goto(t, "fast_model")
    /\ UNCHANGED <<pc, scanVars, filterVars, output, joinVars, splitVars,
                   MODEL, TOKENIZER, LOCK, ret, loads>>

\* line 17, left operand: _MODEL is not None
FastCheckModel(t) ==
    /\ tpc[t] = "fast_model"
    /\ Goto(t, IF MODEL.none THEN "acquire" ELSE "fast_tokenizer")
    /\ UNCHANGED <<pc, scanVars, filterVars, output, joinVars, splitVars,
                   MODEL, TOKENIZER, LOCK, calls, ret, loads>>

\* line 17, right operand: _TOKENIZER is not None
FastCheckTokenizer(t) ==
    /\ tpc[t] = "fast_tokenizer"
    /\ Goto(t, IF TOKENIZER.none THEN "acquire" ELSE "fast_return")
    /\ UNCHANGED <<pc, scanVars, filterVars, output, joinVars, splitVars,
                   MODEL, TOKENIZER, LOCK, calls, ret, loads>>

\* line 18: return _MODEL, _TOKENIZER, _DEVICE
FastReturn(t) ==
    /\ tpc[t] = "fast_return"
    /\ ret' = [ret EXCEPT ![t] = Append(@, Returned)]
    /\ Goto(t, "idle")
    /\ UNCHANGED <<pc, scanVars, filterVars, output, joinVars, splitVars,
                   MODEL, TOKENIZER, LOCK, calls, loads>>

\* line 21: with _LOCK, entry
Acquire(t) ==
    /\ tpc[t] = "acquire"
    /\ LOCK = 0
    /\ LOCK' = t
    /\ Goto(t, "check_tokenizer")
    /\ UNCHANGED <<pc, scanVars, filterVars, output, joinVars, splitVars,
                   MODEL, TOKENIZER, calls, ret, loads>>

\* line 23: if _TOKENIZER is None
CheckTokenizer(t) ==
    /\ tpc[t] = "check_tokenizer"
    /\ Goto(t, IF TOKENIZER.none THEN "load_tokenizer" ELSE "check_model")
    /\ UNCHANGED <<pc, scanVars, filterVars, output, joinVars, splitVars,
                   MODEL, TOKENIZER, LOCK, calls, ret, loads>>

\* line 24: _TOKENIZER = AutoTokenizer.from_pretrained(_MODEL_NAME)
LoadTokenizer(t) ==
    /\ tpc[t] = "load_tokenizer"
    /\ loads' = [loads EXCEPT !.tokenizer = @ + 1]
    /\ TOKENIZER' = [none |-> FALSE, id |-> loads.tokenizer + 1]
    /\ Goto(t, "check_model")
    /\ UNCHANGED <<pc, scanVars, filterVars, output, joinVars, splitVars,
                   MODEL, LOCK, calls, ret>>

\* CheckModel without the second look at _MODEL under the lock
CheckModelNoRecheck(t) ==
    /\ tpc[t] = "check_model"
    /\ Goto(t, "load_model")
    /\ UNCHANGED <<pc, scanVars, filterVars, output, joinVars, splitVars,
                   MODEL, TOKENIZER, LOCK, calls, ret, loads>>

\* line 25: if _MODEL is None
CheckModel(t) ==
    /\ tpc[t] = "check_model"
    /\ Goto(t, IF MODEL.none THEN "load_model" ELSE "release")
    /\ UNCHANGED <<pc, scanVars, filterVars, output, joinVars, splitVars,
                   MODEL, TOKENIZER, LOCK, calls, ret, loads>>

\* lines 26-29: _MODEL = AutoModelForSeq2SeqLM.from_pretrained(...), with or
\* without torch_dtype: a new object, not yet on the device, in training mode
LoadModel(t) ==
    /\ tpc[t] = "load_model"
    /\ loads' = [loads EXCEPT !.model = @ + 1]
    /\ MODEL' = [none |-> FALSE, id |-> loads.model + 1,
                 on_device |-> FALSE, eval_mode |-> FALSE]
    /\ Goto(t, "to_device")
    /\ UNCHANGED <<pc, scanVars, filterVars, output, joinVars, splitVars,
                   TOKENIZER, LOCK, calls, ret>>

\* line 30: _MODEL = _MODEL.to(_DEVICE); Module.to moves the module in place
\* and returns it
ToDevice(t) ==
    /\ tpc[t] = "to_device"
    /\ MODEL' = [MODEL EXCEPT !.on_device = TRUE]
    /\ Goto(t, "eval")
    /\ UNCHANGED <<pc, scanVars, filterVars, output, joinVars, splitVars,
                   TOKENIZER, LOCK, calls, ret, loads>>

\* line 31: _MODEL.eval()
SetEval(t) ==
    /\ tpc[t] = "eval"
    /\ MODEL' = [MODEL EXCEPT !.eval_mode = TRUE]
    /\ Goto(t, "release")
    /\ UNCHANGED <<pc, scanVars, filterVars, output, joinVars, splitVars,
                   TOKENIZER, LOCK, calls, ret, loads>>

\* the end of the with block
Release(t) ==
    /\ tpc[t] = "release"
    /\ LOCK = t
    /\ LOCK' = 0
    /\ Goto(t, "return")
    /\ UNCHANGED <<pc, scanVars, filterVars, output, joinVars, splitVars,
                   MODEL, TOKENIZER, calls, ret, loads>>

\* line 32: return _MODEL, _TOKENIZER, _DEVICE
Return(t) ==
    /\ tpc[t] = "return"
    /\ ret' = [ret EXCEPT ![t] = Append(@, Returned)]
    /\ Goto(t, "idle")
    /\ UNCHANGED <<pc, scanVars, filterVars, output, joinVars, splitVars,
                   MODEL, TOKENIZER, LOCK, calls, loads>>

NextConfig ==
    \/ \E t \in Threads : Call(t)
    \/ \E t \in Threads : FastCheckModel(t)
    \/ \E t \in Threads : FastCheckTokenizer(t)
    \/ \E t \in Threads : FastReturn(t)
    \/ \E t \in Threads : Acquire(t)
    \/ \E t \in Threads : CheckTokenizer(t)
    \/ \E t \in Threads : LoadTokenizer(t)
    \/ \E t \in Threads : CheckModel(t)
    \/ \E t \in Threads : LoadModel(t)
    \/ \E t \in Threads : ToDevice(t)
    \/ \E t \in Threads : SetEval(t)
    \/ \E t \in Threads : Release(t)
    \/ \E t \in Threads : Return(t)

SpecConfig == InitConfig /\ [][NextConfig]_vars

\* everything the calls have returned so far
AllReturned == UNION {Range(ret[t]) : t \in Threads}

\* C17: under every interleaving, a model returned to a caller has already
\* been moved to the device and put in eval mode, and the tokenizer returned
\* with it is loaded.
C17_ReturnedModelIsSetUp ==
    \A r \in AllReturned :
        /\ ~r.model.none /\ r.model.on_device /\ r.model.eval_mode
        /\ ~r.tokenizer.none

\* C18: under every interleaving the tokenizer is loaded at most once and
\* the model at most once, and every caller receives the same model and the
\* same tokenizer object.
C18_LoadedOnce ==
    /\ loads.tokenizer <= 1
    /\ loads.model <= 1
    /\ \A r \in AllReturned : \A q \in AllReturned :
          r.model.id = q.model.id /\ r.tokenizer.id = q.tokenizer.id
    /\ \A r \in AllReturned : ~r.model.none /\ ~r.tokenizer.none

\* two threads that both found the model missing have both returned, and a
\* later call has returned by the fast path
C18_Witness ==
    /\ \A t \in Threads : ret[t] # <<>>
    /\ \E t \in Threads : Len(ret[t]) > 1
    /\ loads = [tokenizer |-> 1, model |-> 1]
    /\ \A t \in Threads : tpc[t] = "idle"

====
